---- MODULE Spec2Model ----
(***************************************************************************)
(* Model of the LIS3MDL magnetometer driver (magnetometer.c / .h).         *)
(*                                                                         *)
(* The device is a map from register address to byte.  Every driver        *)
(* operation is one action; it records the call (operation, argument,      *)
(* status returned, output destination) and the sequence of bus calls it   *)
(* issued.  A bus call either succeeds or fails; a failed transfer moves   *)
(* no data (the read buffer is not filled, the register is not written).   *)
(***************************************************************************)
EXTENDS Integers, Sequences, FiniteSets, TLC

(* ------------------------------------------------------------------ *)
(* Constants of magnetometer.h                                          *)
(* ------------------------------------------------------------------ *)
REG_CTRL_REG_1 == 32
REG_CTRL_REG_2 == 33
STATUS_MAG_OK == 0
STATUS_MAG_ERROR == 1
STATUS_BUS_ERROR == 2
I2C_BUS_ADDR == 28
NUM_OF_BYTES_2 == 2
NUM_OF_BYTES_1 == 1
REG_CTRL_REG2_BIT_MASK_FS1_FS0 == 96
REG_CTRL_REG2_BIT_POS_FS1_FS0 == 5
RANGE_4_GAUSS == 0
RANGE_16_GAUSS == 3
DATARATE_0_625_Hz == 0
DATARATE_80_Hz == 7
DATARATE_155_Hz == 8
DATARATE_300_Hz == 9
DATARATE_560_Hz == 10
DATARATE_1000_Hz == 11
LOW_POWER_MODE == 0
MEDIUM_PERFORMANCE_MODE == 1
HIGH_PERFORMANCE_MODE == 2
ULTRAHIGH_PERFORMANCE_MODE == 3
REG_CTRL_REG1_BIT_MASK_D02_DO1_DO0 == 28
REG_CTRL_REG1_BIT_POS_D02_DO1_DO0 == 2
REG_CTRL_REG1_BIT_MASK_OM1_OM0 == 96
REG_CTRL_REG1_BIT_POS_OM1_OM0 == 5
REG_CTRL_REG1_BIT_MASK_FAST_ORD == 2
REG_CTRL_REG1_BIT_POS_FAST_ORD == 1
REG_CTRL_REG1_BIT_VAL_FAST_ORD == 2
LIS3MDL_REG_INT_CFG == 48
LIS3MDL_REG_INT_CFG_MASK_IEN == 1
LIS3MDL_OUT_X_L_REG == 40
LIS3MDL_OUT_X_H_REG == 41
LIS3MDL_OUT_Y_L_REG == 42
LIS3MDL_OUT_Y_H_REG == 43
LIS3MDL_OUT_Z_L_REG == 44
LIS3MDL_OUT_Z_H_REG == 45
LIS3MDL_AXIS_X == 0
LIS3MDL_AXIS_Y == 1
LIS3MDL_AXIS_Z == 2

(* widths of the C types involved *)
UINT8_MAX == 255
UINT16_MAX == 65535

(* ------------------------------------------------------------------ *)
(* Bounds of the model                                                  *)
(* ------------------------------------------------------------------ *)
MaxRateArg == 15
MaxEnableArg == 2
MaxAxisArg == 3
NumSeeds == 4
NumThreads == 2

Byte == 0..UINT8_MAX
\* argument values tried: a low range and the largest uint8_t
RateArgs == (0..MaxRateArg) \cup {UINT8_MAX}
EnableArgs == (0..MaxEnableArg) \cup {UINT8_MAX}
AxisArgs == (0..MaxAxisArg) \cup {UINT8_MAX}

\* concurrent callers of the driver, and what they and another user of the
\* bus ask for
Threads == 1..NumThreads
RmwRateArgs == {DATARATE_80_Hz, DATARATE_155_Hz, MaxRateArg}
RmwEnableArgs == {0, 1}
OtherBytes == {0, UINT8_MAX}

RegAddrs ==
    {REG_CTRL_REG_1, REG_CTRL_REG_2, LIS3MDL_REG_INT_CFG,
     LIS3MDL_OUT_X_L_REG, LIS3MDL_OUT_X_H_REG, LIS3MDL_OUT_Y_L_REG,
     LIS3MDL_OUT_Y_H_REG, LIS3MDL_OUT_Z_L_REG, LIS3MDL_OUT_Z_H_REG}

(* ------------------------------------------------------------------ *)
(* C integer operators on int (two's complement; -1 is all ones)        *)
(* ------------------------------------------------------------------ *)
RECURSIVE BitAnd(_, _)
BitAnd(a, b) ==
    IF a = 0 \/ b = 0 THEN 0
    ELSE IF a = 0 - 1 THEN b
    ELSE IF b = 0 - 1 THEN a
    ELSE (a % 2) * (b % 2) + 2 * BitAnd(a \div 2, b \div 2)

RECURSIVE BitOr(_, _)
BitOr(a, b) ==
    IF a = 0 THEN b
    ELSE IF b = 0 THEN a
    ELSE (IF a % 2 = 1 \/ b % 2 = 1 THEN 1 ELSE 0) + 2 * BitOr(a \div 2, b \div 2)

\* ~x on an int
BitNot(a) == 0 - a - 1

ShiftLeft(a, n) == a * (2 ^ n)
ShiftRight(a, n) == a \div (2 ^ n)

\* a store into a uint8_t / uint16_t object
ToUint8(x) == x % (UINT8_MAX + 1)
ToUint16(x) == x % (UINT16_MAX + 1)

GET_BIT(data, mask, pos) == ShiftRight(BitAnd(data, mask), pos)
SET_BIT(data, mask, pos) == BitAnd(ShiftLeft(data, pos), mask)

VARIABLES
    regs,         \* device registers: address -> byte
    op,           \* name of the last operation called ("none" initially)
    arg,          \* its uint8_t argument (0 when it has none)
    outNull,      \* whether its output pointer was NULL
    ret,          \* the status_mag_t it returned
    out,          \* value stored through the output pointer (0 if none)
    outWritten,   \* whether the output pointer was stored through
    trace,        \* the bus calls it issued, in order
    prevSetRate,  \* {r} if the call before it was a successful
                  \* setOutputDataRate(r), {} otherwise
    intCfg0,      \* INT_CFG content at start
    lastEnable,   \* {v} for the last successful enableDisableIntPin(v)
    regs0,        \* device registers when the concurrent callers start
                  \* (<<>> where there are none)
    thread,       \* concurrent callers: position in the call, request, the
                  \* byte held in the call's local buffer, status returned,
                  \* {byte written}
    mutex,        \* holder of the callers' lock, if any
    serialized    \* whether the callers guard every register operation
                  \* with the lock

vars == <<regs, op, arg, outNull, ret, out, outWritten, trace,
          prevSetRate, intCfg0, lastEnable, regs0, thread, mutex, serialized>>

(* ------------------------------------------------------------------ *)
(* Bus transport (i2c.h): one transfer to the device at address dev     *)
(* ------------------------------------------------------------------ *)
i2c_read(mem, dev, reg, n, ok) ==
    [dev |-> dev, rw |-> "read", reg |-> reg, n |-> n, ok |-> ok,
     data |-> IF ok THEN [i \in 1..n |-> mem[reg + i - 1]] ELSE <<>>]

i2c_write(dev, reg, n, bytes, ok) ==
    [dev |-> dev, rw |-> "write", reg |-> reg, n |-> n, ok |-> ok,
     data |-> bytes]

\* the device registers after a transfer
Device(mem, call) ==
    IF call.rw = "write" /\ call.ok
    THEN [a \in RegAddrs |->
            IF a >= call.reg /\ a < call.reg + call.n
            THEN call.data[a - call.reg + 1] ELSE mem[a]]
    ELSE mem

\* what a call of an operation did: status returned, bus calls issued,
\* whether and what it stored through its output pointer, device afterwards
Result(status, calls, written, val, mem) ==
    [ret |-> status, trace |-> calls, written |-> written, val |-> val,
     regs |-> mem]

(* ------------------------------------------------------------------ *)
(* LIS3MDL_getFullScaleConfig                                           *)
(* ------------------------------------------------------------------ *)
\* variant: the field taken from bits 7:6
FullScaleRead_Bits76(i2cReadBuffer) ==
    GET_BIT(i2cReadBuffer, 192, 6)

FullScaleRead(i2cReadBuffer) ==
    GET_BIT(i2cReadBuffer, REG_CTRL_REG2_BIT_MASK_FS1_FS0,
            REG_CTRL_REG2_BIT_POS_FS1_FS0)

\* variant: the upper limit itself is rejected
FullScaleOutOfRange_UpperExcluded(fullScaleRead) ==
    fullScaleRead < RANGE_4_GAUSS \/ fullScaleRead >= RANGE_16_GAUSS

FullScaleOutOfRange(fullScaleRead) ==
    fullScaleRead < RANGE_4_GAUSS \/ fullScaleRead > RANGE_16_GAUSS

LIS3MDL_getFullScaleConfig(mem, isNull, rdOk) ==
    LET rd == i2c_read(mem, I2C_BUS_ADDR, REG_CTRL_REG_2, NUM_OF_BYTES_1, rdOk)
        fullScaleRead == FullScaleRead(rd.data[1])
    IN  IF isNull THEN Result(STATUS_MAG_ERROR, <<>>, FALSE, 0, mem)
        ELSE IF ~rd.ok THEN Result(STATUS_BUS_ERROR, <<rd>>, FALSE, 0, mem)
        ELSE IF FullScaleOutOfRange(fullScaleRead)
             THEN Result(STATUS_MAG_ERROR, <<rd>>, FALSE, 0, mem)
        ELSE Result(STATUS_MAG_OK, <<rd>>, TRUE, ToUint8(fullScaleRead), mem)

(* ------------------------------------------------------------------ *)
(* LIS3MDL_setOutputDataRate                                            *)
(* ------------------------------------------------------------------ *)
\* variant: the upper limit of the normal range is not tested
NormalRange_NoUpper(dataRate) ==
    dataRate >= DATARATE_0_625_Hz

NormalRange(dataRate) ==
    dataRate >= DATARATE_0_625_Hz /\ dataRate <= DATARATE_80_Hz

FastRange(dataRate) ==
    dataRate > DATARATE_80_Hz /\ dataRate <= DATARATE_1000_Hz

\* variant: the fast rates mapped to the modes in increasing order
OmValueFor_Increasing(dataRate) ==
    CASE dataRate = DATARATE_155_Hz -> LOW_POWER_MODE
      [] dataRate = DATARATE_300_Hz -> MEDIUM_PERFORMANCE_MODE
      [] dataRate = DATARATE_560_Hz -> HIGH_PERFORMANCE_MODE
      [] dataRate = DATARATE_1000_Hz -> ULTRAHIGH_PERFORMANCE_MODE

\* the switch on dataRate; its default branch leaves omValue unset and is
\* not reached for a rate in the fast range
OmValueFor(dataRate) ==
    CASE dataRate = DATARATE_155_Hz -> ULTRAHIGH_PERFORMANCE_MODE
      [] dataRate = DATARATE_300_Hz -> HIGH_PERFORMANCE_MODE
      [] dataRate = DATARATE_560_Hz -> MEDIUM_PERFORMANCE_MODE
      [] dataRate = DATARATE_1000_Hz -> LOW_POWER_MODE

\* variant: the rate placed one bit too high
EncodeNormal_Pos3(dataRate) ==
    ToUint8(SET_BIT(dataRate, REG_CTRL_REG1_BIT_MASK_D02_DO1_DO0, 3))

EncodeNormal(dataRate) ==
    ToUint8(SET_BIT(dataRate, REG_CTRL_REG1_BIT_MASK_D02_DO1_DO0,
                    REG_CTRL_REG1_BIT_POS_D02_DO1_DO0))

EncodeFast(dataRate) ==
    ToUint8(BitOr(REG_CTRL_REG1_BIT_VAL_FAST_ORD,
                  SET_BIT(OmValueFor(dataRate), REG_CTRL_REG1_BIT_MASK_OM1_OM0,
                          REG_CTRL_REG1_BIT_POS_OM1_OM0)))

\* variant: the rate, fast-ODR and mode bits of the byte read are cleared
\* before the new bits are merged in
OdrWriteBuffer_ReplaceField(i2cWriteBuffer, currentRegValue) ==
    ToUint8(BitOr(i2cWriteBuffer,
                  BitAnd(currentRegValue,
                         BitNot(BitOr(REG_CTRL_REG1_BIT_MASK_D02_DO1_DO0,
                                      BitOr(REG_CTRL_REG1_BIT_MASK_OM1_OM0,
                                            REG_CTRL_REG1_BIT_MASK_FAST_ORD))))))

\* variant: the byte read is not merged into the byte written
OdrWriteBuffer_NoPreserve(i2cWriteBuffer, currentRegValue) ==
    i2cWriteBuffer

\* i2cWriteBuffer |= currentRegValue
OdrWriteBuffer(i2cWriteBuffer, currentRegValue) ==
    ToUint8(BitOr(i2cWriteBuffer, currentRegValue))

\* variant: the status of the write is not looked at
WriteStatus_Ignored(wrOk) ==
    STATUS_MAG_OK

WriteStatus(wrOk) ==
    IF wrOk THEN STATUS_MAG_OK ELSE STATUS_BUS_ERROR

\* variant: the byte is written to CTRL_REG2
LIS3MDL_setOutputDataRate_WritesCtrl2(mem, dataRate, rdOk, wrOk) ==
    LET rd == i2c_read(mem, I2C_BUS_ADDR, REG_CTRL_REG_1, NUM_OF_BYTES_1, rdOk)
        currentRegValue == rd.data[1]
        Write(i2cWriteBuffer) ==
            LET wr == i2c_write(I2C_BUS_ADDR, REG_CTRL_REG_2, NUM_OF_BYTES_1,
                                <<OdrWriteBuffer(i2cWriteBuffer, currentRegValue)>>,
                                wrOk)
            IN  Result(WriteStatus(wr.ok), <<rd, wr>>, FALSE, 0, Device(mem, wr))
    IN  IF ~rd.ok THEN Result(STATUS_BUS_ERROR, <<rd>>, FALSE, 0, mem)
        ELSE IF NormalRange(dataRate) THEN Write(EncodeNormal(dataRate))
        ELSE IF FastRange(dataRate) THEN Write(EncodeFast(dataRate))
        ELSE Result(STATUS_MAG_ERROR, <<rd>>, FALSE, 0, mem)

LIS3MDL_setOutputDataRate(mem, dataRate, rdOk, wrOk) ==
    LET rd == i2c_read(mem, I2C_BUS_ADDR, REG_CTRL_REG_1, NUM_OF_BYTES_1, rdOk)
        currentRegValue == rd.data[1]
        Write(i2cWriteBuffer) ==
            LET wr == i2c_write(I2C_BUS_ADDR, REG_CTRL_REG_1, NUM_OF_BYTES_1,
                                <<OdrWriteBuffer(i2cWriteBuffer, currentRegValue)>>,
                                wrOk)
            IN  Result(WriteStatus(wr.ok), <<rd, wr>>, FALSE, 0, Device(mem, wr))
    IN  IF ~rd.ok THEN Result(STATUS_BUS_ERROR, <<rd>>, FALSE, 0, mem)
        ELSE IF NormalRange(dataRate) THEN Write(EncodeNormal(dataRate))
        ELSE IF FastRange(dataRate) THEN Write(EncodeFast(dataRate))
        ELSE Result(STATUS_MAG_ERROR, <<rd>>, FALSE, 0, mem)

(* ------------------------------------------------------------------ *)
(* LIS3MDL_getOutputDataRate                                            *)
(* ------------------------------------------------------------------ *)
FastOdrValue(i2cReadBuffer) ==
    GET_BIT(i2cReadBuffer, REG_CTRL_REG1_BIT_MASK_FAST_ORD,
            REG_CTRL_REG1_BIT_POS_FAST_ORD)

\* variant: the modes mapped to the fast rates in increasing order
RateForOm_Increasing(omValue) ==
    CASE omValue = LOW_POWER_MODE -> {DATARATE_155_Hz}
      [] omValue = MEDIUM_PERFORMANCE_MODE -> {DATARATE_300_Hz}
      [] omValue = HIGH_PERFORMANCE_MODE -> {DATARATE_560_Hz}
      [] omValue = ULTRAHIGH_PERFORMANCE_MODE -> {DATARATE_1000_Hz}
      [] OTHER -> {}

\* the switch on omValue: {rate} for a known mode, {} for the default branch
RateForOm(omValue) ==
    CASE omValue = LOW_POWER_MODE -> {DATARATE_1000_Hz}
      [] omValue = MEDIUM_PERFORMANCE_MODE -> {DATARATE_560_Hz}
      [] omValue = HIGH_PERFORMANCE_MODE -> {DATARATE_300_Hz}
      [] omValue = ULTRAHIGH_PERFORMANCE_MODE -> {DATARATE_155_Hz}
      [] OTHER -> {}

\* {rate} stored through dataRate, {} when the function returns the error
DecodeDataRate(i2cReadBuffer) ==
    IF FastOdrValue(i2cReadBuffer) = 0
    THEN {ToUint8(GET_BIT(i2cReadBuffer, REG_CTRL_REG1_BIT_MASK_D02_DO1_DO0,
                          REG_CTRL_REG1_BIT_POS_D02_DO1_DO0))}
    ELSE RateForOm(GET_BIT(i2cReadBuffer, REG_CTRL_REG1_BIT_MASK_OM1_OM0,
                           REG_CTRL_REG1_BIT_POS_OM1_OM0))

LIS3MDL_getOutputDataRate(mem, isNull, rdOk) ==
    LET rd == i2c_read(mem, I2C_BUS_ADDR, REG_CTRL_REG_1, NUM_OF_BYTES_1, rdOk)
        decoded == DecodeDataRate(rd.data[1])
    IN  IF isNull THEN Result(STATUS_MAG_ERROR, <<>>, FALSE, 0, mem)
        ELSE IF ~rd.ok THEN Result(STATUS_BUS_ERROR, <<rd>>, FALSE, 0, mem)
        ELSE IF decoded = {} THEN Result(STATUS_MAG_ERROR, <<rd>>, FALSE, 0, mem)
        ELSE Result(STATUS_MAG_OK, <<rd>>, TRUE, CHOOSE r \in decoded : TRUE, mem)

(* ------------------------------------------------------------------ *)
(* LIS3MDL_enableDisableIntPin                                          *)
(* ------------------------------------------------------------------ *)
\* variant: only the test against 0 is made
InvalidEnableDisable_SignOnly(enableDisable) ==
    enableDisable < 0

InvalidEnableDisable(enableDisable) ==
    enableDisable > 1 \/ enableDisable < 0

\* variant: enabling stores the mask instead of or-ing it in
IntCfgWriteBuffer_Assign(enableDisable, i2cReadBuffer) ==
    IF enableDisable = 1
    THEN LIS3MDL_REG_INT_CFG_MASK_IEN
    ELSE ToUint8(BitAnd(i2cReadBuffer, BitNot(LIS3MDL_REG_INT_CFG_MASK_IEN)))

\* variant: enabling flips the IEN bit instead of setting it
IntCfgWriteBuffer_Toggle(enableDisable, i2cReadBuffer) ==
    IF enableDisable = 1
    THEN (IF i2cReadBuffer % 2 = 0 THEN i2cReadBuffer + 1 ELSE i2cReadBuffer - 1)
    ELSE ToUint8(BitAnd(i2cReadBuffer, BitNot(LIS3MDL_REG_INT_CFG_MASK_IEN)))

IntCfgWriteBuffer(enableDisable, i2cReadBuffer) ==
    IF enableDisable = 1
    THEN ToUint8(BitOr(i2cReadBuffer, LIS3MDL_REG_INT_CFG_MASK_IEN))
    ELSE ToUint8(BitAnd(i2cReadBuffer, BitNot(LIS3MDL_REG_INT_CFG_MASK_IEN)))

\* variant: a failed read of INT_CFG is issued a second time
LIS3MDL_enableDisableIntPin_RetryRead(mem, enableDisable, rdOk, wrOk) ==
    LET rd == i2c_read(mem, I2C_BUS_ADDR, LIS3MDL_REG_INT_CFG, NUM_OF_BYTES_1, rdOk)
        wr == i2c_write(I2C_BUS_ADDR, LIS3MDL_REG_INT_CFG, NUM_OF_BYTES_1,
                        <<IntCfgWriteBuffer(enableDisable, rd.data[1])>>, wrOk)
    IN  IF InvalidEnableDisable(enableDisable)
        THEN Result(STATUS_MAG_ERROR, <<>>, FALSE, 0, mem)
        ELSE IF ~rd.ok THEN Result(STATUS_BUS_ERROR, <<rd, rd>>, FALSE, 0, mem)
        ELSE IF ~wr.ok THEN Result(STATUS_BUS_ERROR, <<rd, wr>>, FALSE, 0, Device(mem, wr))
        ELSE Result(STATUS_MAG_OK, <<rd, wr>>, FALSE, 0, Device(mem, wr))

LIS3MDL_enableDisableIntPin(mem, enableDisable, rdOk, wrOk) ==
    LET rd == i2c_read(mem, I2C_BUS_ADDR, LIS3MDL_REG_INT_CFG, NUM_OF_BYTES_1, rdOk)
        wr == i2c_write(I2C_BUS_ADDR, LIS3MDL_REG_INT_CFG, NUM_OF_BYTES_1,
                        <<IntCfgWriteBuffer(enableDisable, rd.data[1])>>, wrOk)
    IN  IF InvalidEnableDisable(enableDisable)
        THEN Result(STATUS_MAG_ERROR, <<>>, FALSE, 0, mem)
        ELSE IF ~rd.ok THEN Result(STATUS_BUS_ERROR, <<rd>>, FALSE, 0, mem)
        ELSE IF ~wr.ok THEN Result(STATUS_BUS_ERROR, <<rd, wr>>, FALSE, 0, Device(mem, wr))
        ELSE Result(STATUS_MAG_OK, <<rd, wr>>, FALSE, 0, Device(mem, wr))

(* ------------------------------------------------------------------ *)
(* LIS3MDL_readAxisData                                                 *)
(* ------------------------------------------------------------------ *)
\* the switch on axisType: {register} for an axis, {} for the default branch
AxisRegVal(axisType) ==
    CASE axisType = LIS3MDL_AXIS_X -> {LIS3MDL_OUT_X_L_REG}
      [] axisType = LIS3MDL_AXIS_Y -> {LIS3MDL_OUT_Y_L_REG}
      [] axisType = LIS3MDL_AXIS_Z -> {LIS3MDL_OUT_Z_L_REG}
      [] OTHER -> {}

\* the value stored into the caller's uint16_t
AxisData(i2cReadBuffer) ==
    ToUint16(BitOr(ShiftLeft(i2cReadBuffer[2], 8), i2cReadBuffer[1]))

LIS3MDL_readAxisData(mem, axisType, isNull, rdOk) ==
    LET axisRegVal == CHOOSE r \in AxisRegVal(axisType) : TRUE
        rd == i2c_read(mem, I2C_BUS_ADDR, axisRegVal, NUM_OF_BYTES_2, rdOk)
    IN  IF isNull THEN Result(STATUS_MAG_ERROR, <<>>, FALSE, 0, mem)
        ELSE IF AxisRegVal(axisType) = {}
             THEN Result(STATUS_MAG_ERROR, <<>>, FALSE, 0, mem)
        ELSE IF ~rd.ok THEN Result(STATUS_BUS_ERROR, <<rd>>, FALSE, 0, mem)
        ELSE Result(STATUS_MAG_OK, <<rd>>, TRUE, AxisData(rd.data), mem)

(* ------------------------------------------------------------------ *)
(* The operations as actions: a caller invokes one through magDriver    *)
(* ------------------------------------------------------------------ *)
Call(o, a, isNull, res) ==
    /\ op' = o
    /\ arg' = a
    /\ outNull' = isNull
    /\ ret' = res.ret
    /\ trace' = res.trace
    /\ outWritten' = res.written
    /\ out' = res.val
    /\ regs' = res.regs
    /\ prevSetRate' = IF op = "setOutputDataRate" /\ ret = STATUS_MAG_OK
                      THEN {arg} ELSE {}
    /\ lastEnable' = IF o = "enableDisableIntPin" /\ res.ret = STATUS_MAG_OK
                     THEN {a} ELSE lastEnable
    /\ UNCHANGED <<intCfg0, regs0, thread, mutex, serialized>>

GetFullScaleConfig ==
    \E isNull \in BOOLEAN, rdOk \in BOOLEAN :
        Call("getFullScaleConfig", 0, isNull,
             LIS3MDL_getFullScaleConfig(regs, isNull, rdOk))

SetOutputDataRate ==
    \E dataRate \in RateArgs, rdOk \in BOOLEAN, wrOk \in BOOLEAN :
        Call("setOutputDataRate", dataRate, FALSE,
             LIS3MDL_setOutputDataRate(regs, dataRate, rdOk, wrOk))

GetOutputDataRate ==
    \E isNull \in BOOLEAN, rdOk \in BOOLEAN :
        Call("getOutputDataRate", 0, isNull,
             LIS3MDL_getOutputDataRate(regs, isNull, rdOk))

EnableDisableIntPin ==
    \E enableDisable \in EnableArgs, rdOk \in BOOLEAN, wrOk \in BOOLEAN :
        Call("enableDisableIntPin", enableDisable, FALSE,
             LIS3MDL_enableDisableIntPin(regs, enableDisable, rdOk, wrOk))

ReadAxisData ==
    \E axisType \in AxisArgs, isNull \in BOOLEAN, rdOk \in BOOLEAN :
        Call("readAxisData", axisType, isNull,
             LIS3MDL_readAxisData(regs, axisType, isNull, rdOk))

(* ------------------------------------------------------------------ *)
(* Concurrent callers: a call's bus read and bus write are separate     *)
(* steps, and other users of the bus may act in between                 *)
(* ------------------------------------------------------------------ *)
\* a caller that is in no call
Idle ==
    [pc |-> "idle", op |-> "none", reg |-> 0, arg |-> 0, buf |-> 0,
     ret |-> STATUS_MAG_OK, wrote |-> {}]

Requests ==
    [op : {"setOutputDataRate"}, reg : {REG_CTRL_REG_1}, arg : RmwRateArgs]
    \cup [op : {"enableDisableIntPin"}, reg : {LIS3MDL_REG_INT_CFG},
          arg : RmwEnableArgs]
    \cup [op : {"busWrite"}, reg : {REG_CTRL_REG_1, LIS3MDL_REG_INT_CFG},
          arg : OtherBytes]

\* the read-modify-write function a request calls
DriverCall(r, mem, rdOk, wrOk) ==
    IF r.op = "setOutputDataRate"
    THEN LIS3MDL_setOutputDataRate(mem, r.arg, rdOk, wrOk)
    ELSE LIS3MDL_enableDisableIntPin(mem, r.arg, rdOk, wrOk)

\* variant: the byte to write is computed from the register's content at
\* the time of the write
LocalView_Fresh(t) ==
    regs

\* the register as the call knows it after its read: the byte in its local
\* currentRegValue / i2cReadBuffer
LocalView(t) ==
    [regs EXCEPT ![thread[t].reg] = thread[t].buf]

Acquire(t) ==
    /\ serialized => mutex = {}
    /\ mutex' = IF serialized THEN {t} ELSE mutex

Release(t) ==
    mutex' = mutex \ {t}

ThreadFrame ==
    UNCHANGED <<op, arg, outNull, ret, out, outWritten, trace, prevSetRate,
                intCfg0, lastEnable, regs0, serialized>>

\* a caller enters an operation (taking the lock first when the callers
\* serialize)
ThreadStart(t) ==
    /\ thread[t].pc = "idle"
    /\ Acquire(t)
    /\ \E r \in Requests :
          thread' = [thread EXCEPT ![t] =
                        [Idle EXCEPT !.pc = "called", !.op = r.op,
                                     !.reg = r.reg, !.arg = r.arg]]
    /\ UNCHANGED regs
    /\ ThreadFrame

\* the call up to and including its bus read; it returns here when its
\* argument is invalid or the read fails
ThreadRead(t) ==
    /\ thread[t].pc = "called"
    /\ thread[t].op # "busWrite"
    /\ \E rdOk \in BOOLEAN :
          LET res == DriverCall(thread[t], regs, rdOk, TRUE)
              held == IF Len(res.trace) >= 1 /\ res.trace[1].ok
                      THEN res.trace[1].data[1] ELSE 0
          IN  IF Len(res.trace) = 2
              THEN /\ thread' = [thread EXCEPT ![t].pc = "read",
                                               ![t].buf = held]
                   /\ UNCHANGED mutex
              ELSE /\ thread' = [thread EXCEPT ![t].pc = "done",
                                               ![t].buf = held,
                                               ![t].ret = res.ret]
                   /\ Release(t)
    /\ UNCHANGED regs
    /\ ThreadFrame

\* the rest of the call: the byte to write is computed from the byte read
\* and written to the device
ThreadWrite(t) ==
    /\ thread[t].pc = "read"
    /\ \E wrOk \in BOOLEAN :
          LET res == DriverCall(thread[t], LocalView(t), TRUE, wrOk)
              wr == res.trace[2]
          IN  /\ regs' = Device(regs, wr)
              /\ thread' = [thread EXCEPT ![t].pc = "done",
                                          ![t].ret = res.ret,
                                          ![t].wrote = {wr.data[1]}]
    /\ Release(t)
    /\ ThreadFrame

\* another user of the bus writes a byte to one of the two registers
OtherWrite(t) ==
    /\ thread[t].pc = "called"
    /\ thread[t].op = "busWrite"
    /\ regs' = Device(regs, i2c_write(I2C_BUS_ADDR, thread[t].reg,
                                      NUM_OF_BYTES_1, <<thread[t].arg>>, TRUE))
    /\ thread' = [thread EXCEPT ![t].pc = "done",
                                ![t].wrote = {thread[t].arg}]
    /\ Release(t)
    /\ ThreadFrame

(* ------------------------------------------------------------------ *)
(* Initial states and specifications                                    *)
(* ------------------------------------------------------------------ *)
\* a device content: every register holds a different byte
Snapshot(s) == [a \in RegAddrs |-> (s + a) % (UINT8_MAX + 1)]

NoCallYet ==
    /\ thread = [t \in Threads |-> Idle]
    /\ mutex = {}
    /\ op = "none"
    /\ arg = 0
    /\ outNull = FALSE
    /\ ret = STATUS_MAG_OK
    /\ out = 0
    /\ outWritten = FALSE
    /\ trace = <<>>
    /\ prevSetRate = {}
    /\ lastEnable = {}
    /\ intCfg0 = regs[LIS3MDL_REG_INT_CFG]

\* the whole driver over a few device contents
Init ==
    /\ \E k \in 0..(NumSeeds - 1) : regs = Snapshot((k * 37) % (UINT8_MAX + 1))
    /\ NoCallYet
    /\ serialized = FALSE
    /\ regs0 = <<>>

Next ==
    \/ GetFullScaleConfig
    \/ SetOutputDataRate
    \/ GetOutputDataRate
    \/ EnableDisableIntPin
    \/ ReadAxisData

Spec == Init /\ [][Next]_vars

\* output data rate: every content of CTRL_REG1
InitODR ==
    /\ \E b \in Byte : regs = [Snapshot(0) EXCEPT ![REG_CTRL_REG_1] = b]
    /\ NoCallYet
    /\ serialized = FALSE
    /\ regs0 = <<>>

NextODR ==
    \/ SetOutputDataRate
    \/ GetOutputDataRate

SpecODR == InitODR /\ [][NextODR]_vars

\* full scale: every content of CTRL_REG2
InitFS ==
    /\ \E b \in Byte : regs = [Snapshot(0) EXCEPT ![REG_CTRL_REG_2] = b]
    /\ NoCallYet
    /\ serialized = FALSE
    /\ regs0 = <<>>

NextFS == GetFullScaleConfig

SpecFS == InitFS /\ [][NextFS]_vars

\* interrupt pin: every content of INT_CFG
InitInt ==
    /\ \E b \in Byte : regs = [Snapshot(0) EXCEPT ![LIS3MDL_REG_INT_CFG] = b]
    /\ NoCallYet
    /\ serialized = FALSE
    /\ regs0 = <<>>

NextInt == EnableDisableIntPin

SpecInt == InitInt /\ [][NextInt]_vars

\* axis data: every pair of bytes in each axis's output registers
InitAxis ==
    /\ \E lo \in Byte, hi \in Byte :
          regs = [Snapshot(0) EXCEPT ![LIS3MDL_OUT_X_L_REG] = lo,
                                     ![LIS3MDL_OUT_X_H_REG] = hi,
                                     ![LIS3MDL_OUT_Y_L_REG] = hi,
                                     ![LIS3MDL_OUT_Y_H_REG] = lo,
                                     ![LIS3MDL_OUT_Z_L_REG] = UINT8_MAX - lo,
                                     ![LIS3MDL_OUT_Z_H_REG] = UINT8_MAX - hi]
    /\ NoCallYet
    /\ serialized = FALSE
    /\ regs0 = <<>>

NextAxis == ReadAxisData

SpecAxis == InitAxis /\ [][NextAxis]_vars

\* the two decoding operations: every content of CTRL_REG1 and of CTRL_REG2
InitDecode ==
    /\ \E b \in Byte : regs = [Snapshot(0) EXCEPT ![REG_CTRL_REG_1] = b,
                                                  ![REG_CTRL_REG_2] = b]
    /\ NoCallYet
    /\ serialized = FALSE
    /\ regs0 = <<>>

NextDecode ==
    \/ GetFullScaleConfig
    \/ GetOutputDataRate

SpecDecode == InitDecode /\ [][NextDecode]_vars

\* concurrent callers of the two read-modify-write operations and another
\* bus user, with and without a lock around every register operation
InitRMW ==
    /\ \E k \in 0..(NumSeeds - 1) : regs = Snapshot((k * 37) % (UINT8_MAX + 1))
    /\ NoCallYet
    /\ serialized \in BOOLEAN
    /\ regs0 = regs

NextRMW ==
    \E t \in Threads :
        \/ ThreadStart(t)
        \/ ThreadRead(t)
        \/ ThreadWrite(t)
        \/ OtherWrite(t)

SpecRMW == InitRMW /\ [][NextRMW]_vars

(* ------------------------------------------------------------------ *)
(* Properties                                                           *)
(* ------------------------------------------------------------------ *)
\* bit i of x
Bit(x, i) == (x \div (2 ^ i)) % 2

\* no bus call of the last operation failed
BusWorked == \A i \in DOMAIN trace : trace[i].ok

\* the last operation issued exactly: one read of one byte of register reg
\* (delivering its content), then one write of one byte to it
ReadThenWrite(reg) ==
    /\ Len(trace) = 2
    /\ trace[1].dev = 28 /\ trace[1].rw = "read" /\ trace[1].reg = reg
    /\ trace[1].n = 1 /\ trace[1].ok /\ Len(trace[1].data) = 1
    /\ trace[2].dev = 28 /\ trace[2].rw = "write" /\ trace[2].reg = reg
    /\ trace[2].n = 1 /\ Len(trace[2].data) = 1

\* C1: a successful getOutputDataRate that immediately follows a successful
\* setOutputDataRate(r), r in 0..11, delivers exactly r, whatever CTRL_REG1
\* held before.
C1_SetThenGetReturnsRate ==
    (op = "getOutputDataRate" /\ ret = 0 /\ prevSetRate # {})
        => (outWritten /\ out \in prevSetRate)

\* C2: the byte written by a successful setOutputDataRate equals the byte it
\* read in bit 7 and in bit 0, the bits outside the rate field, the fast-ODR
\* flag and the performance-mode field.
C2_Bits7And0Unchanged ==
    (op = "setOutputDataRate" /\ ret = 0)
        => /\ ReadThenWrite(32)
           /\ Bit(trace[2].data[1], 7) = Bit(trace[1].data[1], 7)
           /\ Bit(trace[2].data[1], 0) = Bit(trace[1].data[1], 0)
           /\ regs[32] = trace[2].data[1]

C2_Witness ==
    /\ op = "setOutputDataRate" /\ ret = 0 /\ arg = 11
    /\ Len(trace) = 2 /\ trace[1].data[1] = 129 /\ trace[2].data[1] = 131

\* the bits setOutputDataRate is to add for rate r: r in bits 4:2 (normal
\* rates 0..7), or bit 1 and mode 11 - r in bits 6:5 (fast rates 8..11)
C3_NewBits(r) == IF r <= 7 THEN 4 * r ELSE 2 + 32 * (11 - r)

\* C3: with a working bus setOutputDataRate succeeds exactly for the rates
\* 0..11, through the normal encoding for 0..7 and the fast one for 8..11;
\* for any other rate it returns the device error, writes nothing and leaves
\* CTRL_REG1 as it was.
C3_AcceptsExactlyDefinedRates ==
    (op = "setOutputDataRate" /\ BusWorked)
        => /\ (ret = 0) <=> (arg \in 0..11)
           /\ (arg \in 0..11) =>
                 /\ ReadThenWrite(32)
                 /\ \A i \in 0..7 :
                       Bit(trace[2].data[1], i) = 1
                           <=> (Bit(trace[1].data[1], i) = 1
                                \/ Bit(C3_NewBits(arg), i) = 1)
           /\ (arg \notin 0..11) =>
                 /\ ret = 1
                 /\ Len(trace) = 1 /\ trace[1].rw = "read"
                 /\ regs[32] = trace[1].data[1]

C3_Witness ==
    /\ op = "setOutputDataRate" /\ arg = 15 /\ ret = 1
    /\ Len(trace) = 1 /\ trace[1].ok

\* C4: setOutputDataRate with an undefined rate returns the device error
\* without any bus call, whether or not the bus works.
C4_UndefinedRateNoBusAccess ==
    (op = "setOutputDataRate" /\ arg \notin 0..11)
        => (ret = 1 /\ trace = <<>>)

\* C7: with a working bus and a non-null output getOutputDataRate returns OK
\* and delivers bits 4:2 of CTRL_REG1 when bit 1 is clear, and otherwise the
\* rate of the mode in bits 6:5 (0 -> 11, 1 -> 10, 2 -> 9, 3 -> 8).
C7_DecodeRate ==
    (op = "getOutputDataRate" /\ ~outNull /\ BusWorked)
        => /\ ret = 0 /\ outWritten
           /\ Len(trace) = 1 /\ trace[1].rw = "read" /\ trace[1].reg = 32
           /\ out = IF Bit(regs[32], 1) = 0
                    THEN (regs[32] \div 4) % 8
                    ELSE CASE (regs[32] \div 32) % 4 = 0 -> 11
                           [] (regs[32] \div 32) % 4 = 1 -> 10
                           [] (regs[32] \div 32) % 4 = 2 -> 9
                           [] (regs[32] \div 32) % 4 = 3 -> 8

C7_Witness ==
    /\ op = "getOutputDataRate" /\ ret = 0 /\ outWritten
    /\ regs[32] = 94 /\ out = 9

\* the last call had an input the operation must reject: a null output
\* pointer, an axis selector outside 0..2, an enable flag outside 0..1
C5_InvalidInput ==
    \/ op \in {"getFullScaleConfig", "getOutputDataRate", "readAxisData"}
       /\ outNull
    \/ op = "readAxisData" /\ arg \notin {0, 1, 2}
    \/ op = "enableDisableIntPin" /\ arg \notin {0, 1}

\* C5: getFullScaleConfig, getOutputDataRate and readAxisData with a null
\* output, readAxisData with a selector outside 0..2 and enableDisableIntPin
\* with a flag outside 0..1 return the device error, issue no bus call, store
\* nothing and leave every register unchanged, whatever the bus would do.
C5_InvalidInputNoIO ==
    [][C5_InvalidInput'
          => (ret' = 1 /\ trace' = <<>> /\ ~outWritten' /\ regs' = regs)]_vars

C5_Witness ==
    /\ op = "enableDisableIntPin" /\ arg = 2 /\ ret = 1 /\ trace = <<>>

\* C6: a successful enableDisableIntPin(v) writes to INT_CFG the byte it read
\* with bit 0 replaced by v; hence bits 7:1 of INT_CFG always equal their
\* initial value and bit 0 is the flag of the last successful call.
C6_OnlyIenBitChanges ==
    /\ (op = "enableDisableIntPin" /\ ret = 0)
          => /\ ReadThenWrite(48)
             /\ arg \in {0, 1}
             /\ trace[2].data[1] = 2 * (trace[1].data[1] \div 2) + arg
             /\ trace[2].ok
             /\ regs[48] = trace[2].data[1]
    /\ regs[48] \div 2 = intCfg0 \div 2
    /\ lastEnable # {} => (regs[48] % 2) \in lastEnable

\* enable, then disable, on a register whose other bits are all set
C6_Witness ==
    /\ op = "enableDisableIntPin" /\ arg = 0 /\ ret = 0
    /\ intCfg0 = 254 /\ Len(trace) = 2 /\ trace[1].data[1] = 255
    /\ regs[48] = 254

\* C8: with a working bus and a non-null output getFullScaleConfig returns
\* OK, delivers bits 6:5 of CTRL_REG2 whatever the other bits are, and issues
\* exactly one read of one byte at 0x21.
C8_FullScaleCode ==
    (op = "getFullScaleConfig" /\ ~outNull /\ BusWorked)
        => /\ ret = 0 /\ outWritten
           /\ out = (regs[33] \div 32) % 4
           /\ trace = <<[dev |-> 28, rw |-> "read", reg |-> 33, n |-> 1,
                         ok |-> TRUE, data |-> <<regs[33]>>]>>

C8_Witness ==
    /\ op = "getFullScaleConfig" /\ ret = 0 /\ outWritten
    /\ regs[33] = 223 /\ out = 2

\* a 16-bit pattern read as a two's-complement number
C9_Signed16(u) == IF u >= 32768 THEN u - 65536 ELSE u

\* C9: a successful readAxisData issues one read of two bytes at 0x28, 0x2A
\* or 0x2C for X, Y or Z and delivers (high << 8) | low as a signed 16-bit
\* number: 4660 for bytes 0x34, 0x12 and -1 for bytes 0xFF, 0xFF.
C9_SignedAxisSample ==
    (op = "readAxisData" /\ ret = 0)
        => /\ arg \in {0, 1, 2}
           /\ trace = <<[dev |-> 28, rw |-> "read", reg |-> 40 + 2 * arg,
                         n |-> 2, ok |-> TRUE,
                         data |-> <<regs[40 + 2 * arg], regs[41 + 2 * arg]>>]>>
           /\ outWritten
           /\ out = C9_Signed16(256 * regs[41 + 2 * arg] + regs[40 + 2 * arg])

\* the last call had inputs the operation accepts
C10_ValidInput ==
    \/ op = "setOutputDataRate" /\ arg \in 0..11
    \/ op = "enableDisableIntPin" /\ arg \in {0, 1}
    \/ op = "readAxisData" /\ arg \in {0, 1, 2} /\ ~outNull
    \/ op \in {"getFullScaleConfig", "getOutputDataRate"} /\ ~outNull

\* the last call issued a bus call that failed
C10_BusFailed == \E i \in DOMAIN trace : ~trace[i].ok

\* the failed bus call is the last one issued, and it is the read or the
\* write that follows the successful read
C10_StoppedAtFailure ==
    /\ Len(trace) \in {1, 2}
    /\ trace[1].rw = "read"
    /\ ~trace[Len(trace)].ok
    /\ Len(trace) = 2
          => /\ trace[1].ok
             /\ trace[2].rw = "write"
             /\ op \in {"setOutputDataRate", "enableDisableIntPin"}

\* C10: when a bus call of an operation called with valid inputs fails, the
\* operation returns the bus error, issues no further bus call (no write after
\* a failed read, no second write after a failed write), stores nothing
\* through its output pointer and leaves the registers as they were.
C10_BusFailureIsBusError ==
    [][(C10_ValidInput' /\ C10_BusFailed')
          => /\ ret' = 2
             /\ C10_StoppedAtFailure'
             /\ ~outWritten'
             /\ regs' = regs]_vars

\* setOutputDataRate(DATARATE_10_Hz) whose write fails after its read
C10_Witness ==
    /\ op = "setOutputDataRate" /\ arg = 4 /\ ret = 2
    /\ Len(trace) = 2 /\ trace[1].ok /\ ~trace[2].ok

\* C11: the bus calls of every call of the five operations are: none, one
\* read, or one read followed by one write, all to the device at 0x1C; a
\* write only follows a successful read of the same call, and nothing follows
\* a failed bus call (no retry).
C11_BusTraceShape ==
    (op # "none")
        => /\ Len(trace) \in {0, 1, 2}
           /\ \A i \in DOMAIN trace : trace[i].dev = 28
           /\ Len(trace) >= 1 => trace[1].rw = "read"
           /\ Len(trace) = 2 => (trace[1].ok /\ trace[2].rw = "write")
           /\ \A i \in DOMAIN trace : ~trace[i].ok => i = Len(trace)

\* enableDisableIntPin whose write fails: the call ends there
C11_Witness ==
    /\ op = "enableDisableIntPin" /\ arg = 1 /\ ret = 2
    /\ Len(trace) = 2 /\ trace[2].rw = "write" /\ ~trace[2].ok

\* every concurrent caller has returned
C12_AllDone == \A t \in Threads : thread[t].pc = "done"

\* the orders in which the callers' requests can be applied one after another
C12_Orders ==
    {s \in [1..NumThreads -> Threads] :
        \A i, j \in 1..NumThreads : s[i] = s[j] => i = j}

\* the registers after request th alone, started on mem; a request that
\* returned an error changed nothing
C12_Apply(mem, th) ==
    IF th.ret # 0 THEN mem
    ELSE IF th.op = "busWrite" THEN [mem EXCEPT ![th.reg] = th.arg]
    ELSE DriverCall(th, mem, TRUE, TRUE).regs

RECURSIVE C12_RunFrom(_, _, _)
C12_RunFrom(mem, s, i) ==
    IF i > NumThreads THEN mem
    ELSE C12_RunFrom(C12_Apply(mem, thread[s[i]]), s, i + 1)

\* the registers are what some one-after-another run of the requests gives
C12_Sequential == \E s \in C12_Orders : regs = C12_RunFrom(regs0, s, 1)

\* C12: the byte a call of setOutputDataRate or enableDisableIntPin writes is
\* computed from the byte that call read, whatever was written to the
\* register since (so an interleaved write is lost); when every register
\* operation is done under one lock, the registers end as some sequential
\* order of the calls leaves them.
C12_StaleWriteUnlessSerialized ==
    /\ \A t \in Threads :
          (thread[t].wrote # {} /\ thread[t].op = "setOutputDataRate")
              => \E w \in thread[t].wrote : \A i \in 0..7 :
                    Bit(w, i) = 1 <=> (Bit(thread[t].buf, i) = 1
                                       \/ Bit(C3_NewBits(thread[t].arg), i) = 1)
    /\ \A t \in Threads :
          (thread[t].wrote # {} /\ thread[t].op = "enableDisableIntPin")
              => thread[t].wrote = {2 * (thread[t].buf \div 2) + thread[t].arg}
    /\ (serialized /\ C12_AllDone) => C12_Sequential

\* a lost update: without the lock, two calls of setOutputDataRate that both
\* returned OK leave CTRL_REG1 as no sequential order of them does
C12_Witness ==
    /\ ~serialized /\ C12_AllDone /\ ~C12_Sequential
    /\ \A t \in Threads : thread[t].op = "setOutputDataRate" /\ thread[t].ret = 0

\* C13: decoding the bits that setOutputDataRate encodes for a rate r, with
\* every other bit zero, gives r back: a successful getOutputDataRate right
\* after a successful setOutputDataRate(r) that found CTRL_REG1 = 0 delivers
\* r, for each of the twelve rates.
C13_RoundTripOnEncodedBits ==
    [][(/\ op = "setOutputDataRate" /\ ret = 0 /\ Len(trace) = 2
        /\ trace[1].data[1] = 0
        /\ op' = "getOutputDataRate" /\ ret' = 0)
          => /\ regs[32] = C3_NewBits(arg)
             /\ outWritten' /\ out' = arg]_vars

\* set(DATARATE_300_Hz) on an all-zero CTRL_REG1, then get
C13_Witness ==
    /\ op = "getOutputDataRate" /\ ret = 0 /\ outWritten
    /\ prevSetRate = {9} /\ regs[32] = 66 /\ out = 9

\* the performance-mode field (bits 6:5) of a CTRL_REG1 byte
C14_Mode(b) == (b \div 32) % 4

\* C14: the modes 0, 1, 2, 3 correspond to the fast rates 11, 10, 9, 8
\* (1000, 560, 300, 155 Hz) in both directions: getOutputDataRate on a byte
\* with the fast-ODR flag delivers 11 - mode; setOutputDataRate(r), r in
\* 8..11, on a byte with mode field 0 writes mode 11 - r; and setting the
\* rate that getOutputDataRate just delivered from a fast byte writes the
\* same byte back (encode(decode(mode)) = mode).
C14_ModeRateBijection ==
    [][/\ (op' = "getOutputDataRate" /\ ret' = 0 /\ Bit(regs'[32], 1) = 1)
            => (out' = 11 - C14_Mode(regs'[32]) /\ out' \in 8..11)
       /\ (/\ op' = "setOutputDataRate" /\ ret' = 0 /\ arg' \in 8..11
           /\ C14_Mode(regs[32]) = 0)
            => C14_Mode(regs'[32]) = 11 - arg'
       /\ (/\ op = "getOutputDataRate" /\ ret = 0 /\ Bit(regs[32], 1) = 1
           /\ op' = "setOutputDataRate" /\ arg' = out /\ ret' = 0)
            => regs'[32] = regs[32]]_vars

\* setOutputDataRate(DATARATE_300_Hz) on a byte that already says 300 Hz
\* (fast-ODR flag, mode 2)
C14_Witness ==
    /\ op = "setOutputDataRate" /\ arg = 9 /\ ret = 0
    /\ Len(trace) = 2 /\ trace[1].data[1] = 66 /\ regs[32] = 66

\* C15: the byte written by a successful setOutputDataRate(r) with r in 0..7
\* has the fast-ODR flag (bit 1) clear and r in bits 4:2, whatever CTRL_REG1
\* held before.
C15_NormalRateWritesRateField ==
    (op = "setOutputDataRate" /\ ret = 0 /\ arg \in 0..7)
        => /\ ReadThenWrite(32)
           /\ Bit(trace[2].data[1], 1) = 0
           /\ (trace[2].data[1] \div 4) % 8 = arg

C17_DecodingIsTotal ==
    /\ (op = "getFullScaleConfig" /\ ~outNull /\ BusWorked)
          => (ret = 0 /\ outWritten /\ out \in 0..3)
    /\ (op = "getOutputDataRate" /\ ~outNull /\ BusWorked)
          => (ret = 0 /\ outWritten /\ out \in 0..11)
    /\ (op \in {"getFullScaleConfig", "getOutputDataRate"} /\ ret = 1)
          => (outNull /\ trace = <<>>)

\* both fields at their largest: full scale 3 from CTRL_REG2 = 0xFF
C17_Witness ==
    /\ op = "getFullScaleConfig" /\ ~outNull /\ ret = 0 /\ outWritten
    /\ regs[33] = 255 /\ out = 3

\* the register an operation may write: CTRL_REG1 for setOutputDataRate,
\* INT_CFG for enableDisableIntPin, none for the three reading operations
C18_OwnRegister(o) ==
    CASE o = "setOutputDataRate" -> {32}
      [] o = "enableDisableIntPin" -> {48}
      [] OTHER -> {}

\* C18: every bus call goes to the device at 0x1C; getFullScaleConfig,
\* getOutputDataRate and readAxisData issue no write and change no register;
\* setOutputDataRate writes only CTRL_REG1 (0x20) and enableDisableIntPin
\* only INT_CFG (0x30); so CTRL_REG2 and the axis output registers always
\* hold their initial values.
C18_WritesOnlyOwnRegister ==
    [][/\ \A i \in DOMAIN trace' :
             /\ trace'[i].dev = 28
             /\ trace'[i].rw = "write"
                   => (trace'[i].reg \in C18_OwnRegister(op') /\ trace'[i].n = 1)
       /\ \A a \in RegAddrs \ C18_OwnRegister(op') : regs'[a] = regs[a]
       /\ \A a \in RegAddrs \ {32, 48} :
             regs'[a] = (intCfg0 - 48 + a) % 256]_vars

\* both written registers differ from their initial contents, every other
\* register holds its own
C18_Witness ==
    /\ op = "enableDisableIntPin" /\ ret = 0 /\ regs[48] # intCfg0
    /\ regs[32] # (intCfg0 - 48 + 32) % 256
    /\ regs[33] = (intCfg0 - 48 + 33) % 256

\* C19: a successful setOutputDataRate(r) right after a successful
\* setOutputDataRate(r) leaves CTRL_REG1 as the first call left it, and a
\* successful enableDisableIntPin(v) right after a successful
\* enableDisableIntPin(v) leaves INT_CFG as the first call left it.
C19_WritesAreIdempotent ==
    [][(/\ op \in {"setOutputDataRate", "enableDisableIntPin"} /\ ret = 0
        /\ op' = op /\ arg' = arg /\ ret' = 0)
          => /\ Len(trace') = 2
             /\ trace'[2].rw = "write" /\ trace'[2].ok
             /\ trace'[2].data[1] = trace'[1].data[1]
             /\ regs' = regs]_vars

\* the second of two successful setOutputDataRate(DATARATE_300_Hz) in a row
C19_Witness ==
    /\ op = "setOutputDataRate" /\ arg = 9 /\ ret = 0 /\ prevSetRate = {9}
    /\ Len(trace) = 2 /\ trace[1].data[1] = 98 /\ regs[32] = 98

====
